---- MODULE Spec2Model ----
(***************************************************************************)
(* Model of obsidian_quotes.py (class ObsidianQuoteDisplay).               *)
(*                                                                         *)
(* A Python str is a sequence of one-character strings; a document is the  *)
(* character sequence read from a file, newlines included.  The regular    *)
(* expressions of is_markup_only and clean_markdown are evaluated by the   *)
(* operators below the way re.sub evaluates them (leftmost match, lazy     *)
(* quantifier, scan resumes after the match).                              *)
(***************************************************************************)
EXTENDS Integers, Sequences, FiniteSets, TLC

VARIABLES
    mode,               \* which entry point this behaviour exercises
    pc,                 \* position inside the running method
    content,            \* the document text handed to the method
    lines,              \* extract_paragraphs: content.split('\n')
    i,                  \* extract_paragraphs: loop index (0-based, as enumerate)
    in_frontmatter,     \* extract_paragraphs: frontmatter flag
    current_paragraph,  \* extract_paragraphs: buffered stripped prose lines
    paragraphs,         \* extract_paragraphs: output list
    title,              \* extract_book_title: returned value
    text,               \* clean_markdown: the text being rewritten
    segments,           \* clean_markdown: how the input text was composed
    markdown_files,     \* get_random_quote: result of get_markdown_files()
    attempts,           \* get_random_quote: loop counter
    reads,              \* get_random_quote: number of open() calls made
    errors,             \* get_random_quote: number of exceptions caught
    result              \* get_random_quote: returned value

vars == <<mode, pc, content, lines, i, in_frontmatter, current_paragraph,
          paragraphs, title, text, segments, markdown_files, attempts, reads, errors,
          result>>

----------------------------------------------------------------------------
(* Characters and strings *)

Rep(c, n) == [k \in 1..n |-> c]

Lower == {"a","b","c","d","e","f","g","h","i","j","k","l","m",
          "n","o","p","q","r","s","t","u","v","w","x","y","z"}
Upper == {"A","B","C","D","E","F","G","H","I","J","K","L","M",
          "N","O","P","Q","R","S","T","U","V","W","X","Y","Z"}
Digit == {"0","1","2","3","4","5","6","7","8","9"}

\* str.isalpha for one character
isalpha(c) == c \in Lower \cup Upper
\* regex \d and \w
isdigit(c) == c \in Digit
isword(c)  == c \in Lower \cup Upper \cup Digit \cup {"_"}
\* regex \s, and the characters str.strip() removes
isspace(c) == c \in {" ", "\t", "\n", "\r", "\f"}

\* the grave accent U+0060, which a TLA+ string literal cannot hold
Backtick == "U+0060"

startswith(s, p) == Len(s) >= Len(p) /\ SubSeq(s, 1, Len(p)) = p
endswith(s, p)   == Len(s) >= Len(p) /\ SubSeq(s, Len(s) - Len(p) + 1, Len(s)) = p

\* least k >= from with ~isspace(s[k]), or Len(s)+1
RECURSIVE SkipSpace(_, _)
SkipSpace(s, from) ==
    IF from > Len(s) \/ ~isspace(s[from]) THEN from ELSE SkipSpace(s, from + 1)

\* greatest k <= to with ~isspace(s[k]), or 0
RECURSIVE SkipSpaceBack(_, _)
SkipSpaceBack(s, to) ==
    IF to < 1 \/ ~isspace(s[to]) THEN to ELSE SkipSpaceBack(s, to - 1)

\* str.strip()
strip(s) == SubSeq(s, SkipSpace(s, 1), SkipSpaceBack(s, Len(s)))

\* least k >= from at which p occurs in s, or 0 (str.find + 1)
Find(s, p, from) ==
    LET hits == {k \in from..(Len(s) - Len(p) + 1) :
                    s[k] = p[1] /\ SubSeq(s, k, k + Len(p) - 1) = p}
    IN  IF hits = {} THEN 0
        ELSE CHOOSE k \in hits : \A h \in hits : k <= h

\* str.split('\n')
RECURSIVE split(_)
split(s) ==
    LET k == Find(s, <<"\n">>, 1)
    IN  IF k = 0 THEN <<s>>
        ELSE <<SubSeq(s, 1, k - 1)>> \o split(SubSeq(s, k + 1, Len(s)))

\* sep.join(parts)
RECURSIVE join(_, _)
join(parts, sep) ==
    IF parts = <<>> THEN <<>>
    ELSE IF Len(parts) = 1 THEN parts[1]
    ELSE parts[1] \o sep \o join(Tail(parts), sep)

----------------------------------------------------------------------------
(* extract_book_title *)

UnknownBook == <<"U","n","k","n","o","w","n"," ","B","o","o","k">>

RECURSIVE TitleScan(_)
TitleScan(ls) ==
    IF ls = <<>> THEN UnknownBook
    ELSE LET line == strip(Head(ls))
         IN  IF startswith(line, <<"#", " ">>)
             THEN strip(SubSeq(line, 3, Len(line)))
             ELSE TitleScan(Tail(ls))

extract_book_title(c) == TitleScan(split(c))

----------------------------------------------------------------------------
(* re.sub for the pattern shapes the program uses *)

\* The texts these are applied to are lines of content.split('\n') and joins
\* of such lines: they hold no newline, so "." matches each of their characters.

\* re.sub(open .*? close, repl, s): repl is the group (.*?) when keep, else ''.
\* The leftmost open that has a close after it matches up to the nearest
\* close; when the leftmost open has none, no later one has.
RECURSIVE sub_delim(_, _, _, _)
sub_delim(s, open, close, keep) ==
    LET p == Find(s, open, 1)
        q == IF p = 0 THEN 0 ELSE Find(s, close, p + Len(open))
    IN  IF p = 0 \/ q = 0 THEN s
        ELSE SubSeq(s, 1, p - 1)
             \o (IF keep THEN SubSeq(s, p + Len(open), q - 1) ELSE <<>>)
             \o sub_delim(SubSeq(s, q + Len(close), Len(s)), open, close, keep)

\* re.sub(r'\[(.*?)\]\(.*?\)', repl, s): "[", the nearest "](" and the
\* nearest ")" after it.
RECURSIVE sub_link(_, _)
sub_link(s, keep) ==
    LET p == Find(s, <<"[">>, 1)
        q == IF p = 0 THEN 0 ELSE Find(s, <<"]", "(">>, p + 1)
        r == IF q = 0 THEN 0 ELSE Find(s, <<")">>, q + 2)
    IN  IF r = 0 THEN s
        ELSE SubSeq(s, 1, p - 1)
             \o (IF keep THEN SubSeq(s, p + 1, q - 1) ELSE <<>>)
             \o sub_link(SubSeq(s, r + 1, Len(s)), keep)

\* least k >= from with ~isword(s[k]), or Len(s)+1
RECURSIVE SkipWord(_, _)
SkipWord(s, from) ==
    IF from > Len(s) \/ ~isword(s[from]) THEN from ELSE SkipWord(s, from + 1)

\* least k >= from with ~isdigit(s[k]), or Len(s)+1
RECURSIVE SkipDigits(_, _)
SkipDigits(s, from) ==
    IF from > Len(s) \/ ~isdigit(s[from]) THEN from ELSE SkipDigits(s, from + 1)

\* end (exclusive) of the run of c starting at from, at most max long
RECURSIVE SkipRun(_, _, _, _)
SkipRun(s, c, from, max) ==
    IF max = 0 \/ from > Len(s) \/ s[from] # c THEN from
    ELSE SkipRun(s, c, from + 1, max - 1)

\* re.sub(r'!rw-\w+', '', s)
RECURSIVE sub_rw(_)
sub_rw(s) ==
    LET p == Find(s, <<"!", "r", "w", "-">>, 1)
        e == SkipWord(s, p + 4)
    IN  IF p = 0 THEN s
        ELSE IF e = p + 4
             THEN SubSeq(s, 1, p + 3) \o sub_rw(SubSeq(s, p + 4, Len(s)))
             ELSE SubSeq(s, 1, p - 1) \o sub_rw(SubSeq(s, e, Len(s)))

MaxHeaderLevel == 6

\* re.sub(r'#{1,6}\s*', '', s)
RECURSIVE sub_headers(_)
sub_headers(s) ==
    LET p == Find(s, <<"#">>, 1)
        e == SkipSpace(s, SkipRun(s, "#", p, MaxHeaderLevel))
    IN  IF p = 0 THEN s
        ELSE SubSeq(s, 1, p - 1) \o sub_headers(SubSeq(s, e, Len(s)))

\* re.sub(r'^>\s*', '', s)
sub_blockquote(s) ==
    IF startswith(s, <<">">>) THEN SubSeq(s, SkipSpace(s, 2), Len(s)) ELSE s

\* re.sub(r'^[-*+]\s*', '', s)
sub_bullet(s) ==
    IF s # <<>> /\ s[1] \in {"-", "*", "+"}
    THEN SubSeq(s, SkipSpace(s, 2), Len(s)) ELSE s

\* re.sub(r'^\d+\.\s*', '', s)
sub_numbered(s) ==
    LET d == SkipDigits(s, 1)
    IN  IF d > 1 /\ d <= Len(s) /\ s[d] = "."
        THEN SubSeq(s, SkipSpace(s, d + 1), Len(s)) ELSE s

\* re.sub(r'^---+$', '', s): $ also matches before one trailing newline
sub_rule(s) ==
    LET body == IF endswith(s, <<"\n">>) THEN SubSeq(s, 1, Len(s) - 1) ELSE s
    IN  IF Len(body) >= 3 /\ \A k \in 1..Len(body) : body[k] = "-"
        THEN SubSeq(s, Len(body) + 1, Len(s)) ELSE s

----------------------------------------------------------------------------
(* is_markup_only *)

MinSubstantialLen == 20

strip_markup(line) ==
    LET c1  == sub_delim(line, <<"!", "[", "[">>, <<"]", "]">>, FALSE)
        c2  == sub_rw(c1)
        c3  == sub_delim(c2, <<"[", "[">>, <<"]", "]">>, FALSE)
        c4  == sub_link(c3, FALSE)
        c5  == sub_delim(c4, <<Backtick>>, <<Backtick>>, FALSE)
        c6  == sub_delim(c5, <<"*", "*">>, <<"*", "*">>, FALSE)
        c7  == sub_delim(c6, <<"*">>, <<"*">>, FALSE)
        c8  == sub_delim(c7, <<"=", "=">>, <<"=", "=">>, FALSE)
        c9  == sub_delim(c8, <<"%", "%">>, <<"%", "%">>, FALSE)
        c10 == sub_delim(c9, <<"<", "!", "-", "-">>, <<"-", "-", ">">>, FALSE)
        c11 == sub_delim(c10, <<"<">>, <<">">>, FALSE)
        c12 == sub_headers(c11)
        c13 == sub_blockquote(c12)
        c14 == sub_bullet(c13)
        c15 == sub_numbered(c14)
        c16 == sub_rule(c15)
    IN  strip(c16)

is_markup_only(line) ==
    LET cleaned == strip_markup(line)
    IN  Len(cleaned) < MinSubstantialLen
        \/ ~ \E k \in 1..Len(cleaned) : isalpha(cleaned[k])

----------------------------------------------------------------------------
(* extract_paragraphs *)

MinParagraphLen == 100
MaxWikiLinkLen == 50

Rule == <<"-", "-", "-">>

\* any(skip_conditions) for one stripped line
skip_conditions(line_stripped) ==
    \/ startswith(line_stripped, <<"#">>)
    \/ line_stripped = <<>>
    \/ startswith(line_stripped, <<Backtick, Backtick, Backtick>>)
    \/ startswith(line_stripped, <<">">>)
    \/ startswith(line_stripped, <<"-", " ">>)
    \/ startswith(line_stripped, <<"*", " ">>)
    \/ startswith(line_stripped, <<"1", ".", " ">>)
    \/ startswith(line_stripped, <<"!", "[", "[">>)
    \/ startswith(line_stripped, <<"!", "r", "w", "-">>)
    \/ startswith(line_stripped, <<"!", "[">>)
    \/ line_stripped = Rule
    \/ startswith(line_stripped, <<"=", "=">>)
    \/ startswith(line_stripped, <<"%", "%">>)
    \/ startswith(line_stripped, <<"<", "!", "-", "-">>)
    \/ startswith(line_stripped, <<"<">>)
    \/ (/\ startswith(line_stripped, <<"[", "[">>)
        /\ endswith(line_stripped, <<"]", "]">>)
        /\ Len(line_stripped) < MaxWikiLinkLen)

\* ' '.join(current_paragraph).strip()
paragraph_text(cp) == strip(join(cp, <<" ">>))

\* mutant: the gate lets a paragraph of exactly the minimum length through
save_on_skip_inclusive(cp, ps) ==
    IF cp # <<>> /\ Len(paragraph_text(cp)) >= MinParagraphLen
    THEN Append(ps, paragraph_text(cp)) ELSE ps

\* lines 95-99: the paragraphs list after a skippable line
save_on_skip(cp, ps) ==
    IF cp # <<>> /\ Len(paragraph_text(cp)) > MinParagraphLen
    THEN Append(ps, paragraph_text(cp)) ELSE ps

\* lines 107-110: the paragraphs list after the loop
save_at_end(cp, ps) ==
    IF cp # <<>> /\ Len(paragraph_text(cp)) > MinParagraphLen
    THEN Append(ps, paragraph_text(cp)) ELSE ps

\* mutant: a markup-only line resets the buffer
keep_line_resets(cp, line_stripped) ==
    IF line_stripped # <<>> /\ ~is_markup_only(line_stripped)
    THEN Append(cp, line_stripped) ELSE <<>>

\* lines 103-104: the buffer after a non-skippable line
keep_line(cp, line_stripped) ==
    IF line_stripped # <<>> /\ ~is_markup_only(line_stripped)
    THEN Append(cp, line_stripped) ELSE cp

\* the for loop from index k (0-based) on, as a function of the loop's locals
RECURSIVE para_loop(_, _, _, _, _)
para_loop(ls, k, fm, cp, ps) ==
    IF k >= Len(ls) THEN save_at_end(cp, ps)
    ELSE LET line_stripped == strip(ls[k + 1])
         IN  IF k = 0 /\ line_stripped = Rule
                 THEN para_loop(ls, k + 1, TRUE, cp, ps)
             ELSE IF fm /\ line_stripped = Rule
                 THEN para_loop(ls, k + 1, FALSE, cp, ps)
             ELSE IF fm
                 THEN para_loop(ls, k + 1, fm, cp, ps)
             ELSE IF skip_conditions(line_stripped)
                 THEN para_loop(ls, k + 1, fm, <<>>, save_on_skip(cp, ps))
             ELSE para_loop(ls, k + 1, fm, keep_line(cp, line_stripped), ps)

extract_paragraphs(c) == para_loop(split(c), 0, FALSE, <<>>, <<>>)

----------------------------------------------------------------------------
(* clean_markdown *)

clean_bold(t)       == sub_delim(t, <<"*", "*">>, <<"*", "*">>, TRUE)
clean_italic(t)     == sub_delim(t, <<"*">>, <<"*">>, TRUE)
clean_bold_alt(t)   == sub_delim(t, <<"_", "_">>, <<"_", "_">>, TRUE)
\* mutant: the replacement drops the group, as the patterns of is_markup_only do
clean_italic_alt_drops(t) == sub_delim(t, <<"_">>, <<"_">>, FALSE)
clean_italic_alt(t) == sub_delim(t, <<"_">>, <<"_">>, TRUE)
clean_code(t)       == sub_delim(t, <<Backtick>>, <<Backtick>>, TRUE)
clean_wiki(t)       == sub_delim(t, <<"[", "[">>, <<"]", "]">>, TRUE)
clean_link(t)       == sub_link(t, TRUE)

clean_markdown(t) ==
    clean_link(clean_wiki(clean_code(clean_italic_alt(clean_bold_alt(
        clean_italic(clean_bold(t)))))))

----------------------------------------------------------------------------
(* Documents the methods are run on *)

MaxLines == 3

ProseOver  == Rep("a", MinParagraphLen + 1)
ProseExact == Rep("a", MinParagraphLen)
ProseHalf  == <<" ">> \o Rep("b", MinParagraphLen \div 2) \o <<" ">>
ProseShort == Rep("c", (MinParagraphLen \div 2) - 1)
LinkLine   == <<"[", "x", "]", "(", "u", ")">>
EmbedLine  == <<"!", "[", "[", "e", ".", "p", "n", "g", "]", "]">>
RuleLine   == <<"-", "-", "-">>
HeadLine   == <<"#", " ", "T", " ">>
BlankLine  == <<>>
NoteLine   == <<"S", "e", "e", " ", "[", "[", "L", "]", "]", ".">>

LineVocabulary ==
    {ProseOver, ProseExact, ProseHalf, ProseShort,
     LinkLine, EmbedLine, RuleLine, HeadLine, BlankLine, NoteLine}

\* every sequence of 1..n lines of the vocabulary
Bodies(n) == UNION {[1..k -> LineVocabulary] : k \in 1..n}

\* leading frontmatter blocks: empty, holding prose, holding a heading
FrontmatterBlocks ==
    {<<RuleLine, RuleLine>>,
     <<RuleLine, ProseOver, RuleLine>>,
     <<RuleLine, HeadLine, RuleLine>>}

DocumentLines ==
    Bodies(MaxLines)
    \cup {fm \o body : fm \in FrontmatterBlocks,
                       body \in Bodies(MaxLines - 1) \cup {<<>>}}

Documents == {join(ls, <<"\n">>) : ls \in DocumentLines}

None == <<>>
NoResult == [kind |-> "none"]

----------------------------------------------------------------------------
(* extract_book_title, statement by statement *)

TitleInit ==
    /\ mode = "title" /\ pc = "start"
    /\ content \in Documents
    /\ lines = None /\ i = 0 /\ in_frontmatter = FALSE
    /\ current_paragraph = <<>> /\ paragraphs = <<>>
    /\ title = None /\ text = None /\ segments = <<>>
    /\ markdown_files = {} /\ attempts = 0 /\ reads = 0 /\ errors = 0
    /\ result = NoResult

NotTitleVars ==
    <<mode, content, in_frontmatter, current_paragraph, paragraphs, text,
      segments, markdown_files, attempts, reads, errors, result>>

\* line 18
TitleBegin ==
    /\ mode = "title" /\ pc = "start"
    /\ lines' = split(content)
    /\ i' = 0
    /\ pc' = "loop"
    /\ UNCHANGED <<title, NotTitleVars>>

\* lines 19-21, the test fails
TitleSkip ==
    /\ mode = "title" /\ pc = "loop" /\ i < Len(lines)
    /\ ~startswith(strip(lines[i + 1]), <<"#", " ">>)
    /\ i' = i + 1
    /\ UNCHANGED <<pc, lines, title, NotTitleVars>>

\* lines 19-22, the test succeeds
TitleFound ==
    /\ mode = "title" /\ pc = "loop" /\ i < Len(lines)
    /\ startswith(strip(lines[i + 1]), <<"#", " ">>)
    /\ title' = LET line == strip(lines[i + 1])
                IN  strip(SubSeq(line, 3, Len(line)))
    /\ pc' = "done"
    /\ UNCHANGED <<i, lines, NotTitleVars>>

\* line 23
TitleDefault ==
    /\ mode = "title" /\ pc = "loop" /\ i >= Len(lines)
    /\ title' = UnknownBook
    /\ pc' = "done"
    /\ UNCHANGED <<i, lines, NotTitleVars>>

TitleNext == TitleBegin \/ TitleSkip \/ TitleFound \/ TitleDefault

SpecTitle == TitleInit /\ [][TitleNext]_vars

----------------------------------------------------------------------------
(* extract_paragraphs, statement by statement *)

ParaInit ==
    /\ mode = "paragraphs" /\ pc = "start"
    /\ content \in Documents
    /\ lines = None /\ i = 0 /\ in_frontmatter = FALSE
    /\ current_paragraph = <<>> /\ paragraphs = <<>>
    /\ title = None /\ text = None /\ segments = <<>>
    /\ markdown_files = {} /\ attempts = 0 /\ reads = 0 /\ errors = 0
    /\ result = NoResult

NotParaVars ==
    <<mode, content, title, text, segments, markdown_files, attempts, reads,
      errors, result>>

line_stripped == strip(lines[i + 1])

InLoop == mode = "paragraphs" /\ pc = "loop" /\ i < Len(lines)

\* lines 53-58
ParaBegin ==
    /\ mode = "paragraphs" /\ pc = "start"
    /\ lines' = split(content)
    /\ paragraphs' = <<>>
    /\ current_paragraph' = <<>>
    /\ in_frontmatter' = FALSE
    /\ i' = 0
    /\ pc' = "loop"
    /\ UNCHANGED NotParaVars

\* mutant: any "---" line opens frontmatter
FrontmatterOpen_anywhere ==
    /\ InLoop
    /\ ~in_frontmatter /\ line_stripped = Rule
    /\ in_frontmatter' = TRUE
    /\ i' = i + 1
    /\ UNCHANGED <<pc, lines, current_paragraph, paragraphs, NotParaVars>>

\* lines 64-66
FrontmatterOpen ==
    /\ InLoop
    /\ i = 0 /\ line_stripped = Rule
    /\ in_frontmatter' = TRUE
    /\ i' = i + 1
    /\ UNCHANGED <<pc, lines, current_paragraph, paragraphs, NotParaVars>>

\* lines 67-69
FrontmatterClose ==
    /\ InLoop
    /\ ~(i = 0 /\ line_stripped = Rule)
    /\ in_frontmatter /\ line_stripped = Rule
    /\ in_frontmatter' = FALSE
    /\ i' = i + 1
    /\ UNCHANGED <<pc, lines, current_paragraph, paragraphs, NotParaVars>>

\* mutant: lines inside frontmatter are buffered
FrontmatterSkip_buffers ==
    /\ InLoop
    /\ ~(i = 0 /\ line_stripped = Rule)
    /\ ~(in_frontmatter /\ line_stripped = Rule)
    /\ in_frontmatter
    /\ current_paragraph' = keep_line(current_paragraph, line_stripped)
    /\ i' = i + 1
    /\ UNCHANGED <<pc, lines, in_frontmatter, paragraphs, NotParaVars>>

\* lines 70-71
FrontmatterSkip ==
    /\ InLoop
    /\ ~(i = 0 /\ line_stripped = Rule)
    /\ ~(in_frontmatter /\ line_stripped = Rule)
    /\ in_frontmatter
    /\ i' = i + 1
    /\ UNCHANGED <<pc, lines, in_frontmatter, current_paragraph, paragraphs,
                   NotParaVars>>

\* none of the frontmatter branches of lines 64-71 is taken
PastFrontmatter ==
    /\ InLoop
    /\ ~(i = 0 /\ line_stripped = Rule)
    /\ ~in_frontmatter

\* mutant: the buffer is saved but not cleared
SkipLine_keeps_buffer ==
    /\ PastFrontmatter
    /\ skip_conditions(line_stripped)
    /\ paragraphs' = save_on_skip(current_paragraph, paragraphs)
    /\ i' = i + 1
    /\ UNCHANGED <<pc, lines, in_frontmatter, current_paragraph, NotParaVars>>

\* lines 93-100
SkipLine ==
    /\ PastFrontmatter
    /\ skip_conditions(line_stripped)
    /\ paragraphs' = save_on_skip(current_paragraph, paragraphs)
    /\ current_paragraph' = <<>>
    /\ i' = i + 1
    /\ UNCHANGED <<pc, lines, in_frontmatter, NotParaVars>>

\* lines 103-104
KeepLine ==
    /\ PastFrontmatter
    /\ ~skip_conditions(line_stripped)
    /\ current_paragraph' = keep_line(current_paragraph, line_stripped)
    /\ i' = i + 1
    /\ UNCHANGED <<pc, lines, in_frontmatter, paragraphs, NotParaVars>>

\* lines 107-112
ParaReturn ==
    /\ mode = "paragraphs" /\ pc = "loop" /\ i >= Len(lines)
    /\ paragraphs' = save_at_end(current_paragraph, paragraphs)
    /\ pc' = "done"
    /\ UNCHANGED <<lines, i, in_frontmatter, current_paragraph, NotParaVars>>

ParaNext ==
    \/ ParaBegin
    \/ FrontmatterOpen
    \/ FrontmatterClose
    \/ FrontmatterSkip
    \/ SkipLine
    \/ KeepLine
    \/ ParaReturn

SpecParagraphs == ParaInit /\ [][ParaNext]_vars

----------------------------------------------------------------------------
(* Properties of extract_book_title and extract_paragraphs *)

\* 1-based index of the line closing the frontmatter block opened on the
\* first line of ls; 0 when ls opens none, Len(ls)+1 when it is never closed
FrontmatterEnd(ls) ==
    IF ls = <<>> \/ strip(ls[1]) # <<"-", "-", "-">> THEN 0
    ELSE LET closers == {k \in 2..Len(ls) : strip(ls[k]) = <<"-", "-", "-">>}
         IN  IF closers = {} THEN Len(ls) + 1
             ELSE CHOOSE k \in closers : \A h \in closers : k <= h

FrontmatterClosed(ls) == FrontmatterEnd(ls) \in 2..Len(ls)
FrontmatterUnclosed(ls) == FrontmatterEnd(ls) = Len(ls) + 1

\* the lines after the closed frontmatter block (all lines when there is none)
OutsideFrontmatter(ls) ==
    IF FrontmatterClosed(ls) THEN SubSeq(ls, FrontmatterEnd(ls) + 1, Len(ls))
    ELSE ls

\* C1: extract_book_title returns the trimmed text after "# " of the first
\* "# " line outside the leading frontmatter block, and "Unknown Book" when
\* no line outside frontmatter starts with "# ".
C1_TitleOutsideFrontmatter ==
    (mode = "title" /\ pc = "done") =>
        LET outside == OutsideFrontmatter(lines)
            heads == {k \in 1..Len(outside) :
                         startswith(strip(outside[k]), <<"#", " ">>)}
        IN  IF heads = {} THEN title = <<"U","n","k","n","o","w","n"," ","B","o","o","k">>
            ELSE LET k == CHOOSE h \in heads : \A g \in heads : h <= g
                     line == strip(outside[k])
                 IN  title = strip(SubSeq(line, 3, Len(line)))

\* length of the buffered lines joined by single spaces
RECURSIVE JoinedLen(_)
JoinedLen(cp) ==
    IF cp = <<>> THEN 0
    ELSE IF Len(cp) = 1 THEN Len(cp[1])
    ELSE Len(cp[1]) + 1 + JoinedLen(Tail(cp))

\* a step that finalizes a non-empty buffer (on a skippable line or at the end)
Finalizes ==
    /\ mode = "paragraphs" /\ pc = "loop"
    /\ current_paragraph # <<>>
    /\ (current_paragraph' = <<>> \/ pc' = "done")

LengthGateStep ==
    Finalizes =>
        IF JoinedLen(current_paragraph) > 100
        THEN /\ Len(paragraphs') = Len(paragraphs) + 1
             /\ SubSeq(paragraphs', 1, Len(paragraphs)) = paragraphs
             /\ Len(paragraphs'[Len(paragraphs')]) = JoinedLen(current_paragraph)
        ELSE paragraphs' = paragraphs

\* C2: a finalized buffer is appended to the output iff its joined, trimmed
\* length is greater than 100 (100 excluded, 101 included), on a skippable
\* line and at end of input alike; every returned paragraph is longer than 100.
C2_LengthGate ==
    [][ /\ LengthGateStep
        /\ \A k \in 1..Len(paragraphs') : Len(paragraphs'[k]) > 100 ]_vars

C2_Witness ==
    /\ mode = "paragraphs" /\ pc = "done"
    /\ lines = <<ProseExact, EmbedLine, ProseOver>>
    /\ paragraphs = <<ProseOver>>

MarkupOnlyLineAt(ls, k) ==
    /\ ~skip_conditions(strip(ls[k]))
    /\ is_markup_only(strip(ls[k]))

WithoutLine(ls, k) == SubSeq(ls, 1, k - 1) \o SubSeq(ls, k + 1, Len(ls))

\* C3: a non-skippable markup-only line leaves the buffer and the output as
\* they are; the buffer is finalized only by a skippable line or at end of
\* input; the result is the one the document gives with that line removed.
C3_MarkupOnlyKeepsBuffer ==
    [][ /\ (PastFrontmatter /\ MarkupOnlyLineAt(lines, i + 1)) =>
               (current_paragraph' = current_paragraph /\ paragraphs' = paragraphs)
        /\ (mode = "paragraphs" /\ pc = "loop"
            /\ (paragraphs' # paragraphs
                \/ (current_paragraph # <<>> /\ current_paragraph' = <<>>))) =>
               (pc' = "done" \/ (PastFrontmatter /\ skip_conditions(line_stripped)))
        /\ (mode = "paragraphs" /\ pc' = "done") =>
               \A k \in 2..Len(lines) :
                   MarkupOnlyLineAt(lines, k) =>
                       paragraphs' =
                           extract_paragraphs(join(WithoutLine(lines, k), <<"\n">>))
      ]_vars

C3_Witness ==
    /\ mode = "paragraphs" /\ pc = "done"
    /\ lines = <<ProseHalf, LinkLine, ProseHalf>>
    /\ Len(paragraphs) = 1
    /\ Len(paragraphs[1]) = 101

\* the stripped lines a..b of ls that the markup-only filter keeps, joined
JoinedRun(ls, a, b) ==
    join(SelectSeq([k \in 1..(b - a + 1) |-> strip(ls[a + k - 1])],
                   LAMBDA l : ~is_markup_only(l)),
         <<" ">>)

\* lines a..b of ls lie outside frontmatter and none of them is skippable
ProseRun(ls, a, b) ==
    /\ a <= b
    /\ a > FrontmatterEnd(ls)
    /\ \A k \in a..b : ~skip_conditions(strip(ls[k]))

\* C4: a skippable line outside frontmatter clears the buffer and adds
\* nothing of its own: every returned paragraph is the join of a run of
\* consecutive lines that holds no skippable line, so a skippable line is in
\* no paragraph and the prose on its two sides is never in the same one.
C4_SkippableEndsParagraph ==
    [][ /\ (PastFrontmatter /\ skip_conditions(line_stripped)) =>
               /\ current_paragraph' = <<>>
               /\ SubSeq(paragraphs', 1, Len(paragraphs)) = paragraphs
               /\ Len(paragraphs') <= Len(paragraphs) + 1
        /\ (mode = "paragraphs" /\ pc' = "done") =>
               \A n \in 1..Len(paragraphs') :
                   \E a, b \in 1..Len(lines) :
                       /\ ProseRun(lines, a, b)
                       /\ paragraphs'[n] = JoinedRun(lines, a, b)
      ]_vars

C4_Witness ==
    /\ mode = "paragraphs" /\ pc = "done"
    /\ lines = <<ProseOver, EmbedLine, ProseOver>>
    /\ paragraphs = <<ProseOver, ProseOver>>

\* C5: with line 0 "---" and a later "---", nothing of the lines up to the
\* first later "---" reaches the output, and the lines after it are processed
\* from an empty buffer: the result is that of the remaining lines alone
\* (behind a blank line, so that the first of them is not line 0).
C5_ClosedFrontmatterExcluded ==
    (mode = "paragraphs" /\ pc \in {"loop", "done"} /\ FrontmatterClosed(lines)) =>
        /\ i <= FrontmatterEnd(lines) =>
               (current_paragraph = <<>> /\ paragraphs = <<>>)
        /\ pc = "done" =>
               paragraphs =
                   extract_paragraphs(
                       join(<<<<>>>> \o OutsideFrontmatter(lines), <<"\n">>))

C5_Witness ==
    /\ mode = "paragraphs" /\ pc = "done"
    /\ lines = <<RuleLine, ProseOver, RuleLine, ProseHalf, ProseHalf>>
    /\ paragraphs = <<strip(ProseHalf) \o <<" ">> \o strip(ProseHalf)>>

\* C6: with line 0 "---" and no later "---" the result is empty; frontmatter
\* mode is entered only at line 0, and a later "---" outside frontmatter only
\* finalizes the buffer.
C6_UnclosedFrontmatterDropsAll ==
    [][ /\ (mode = "paragraphs" /\ FrontmatterUnclosed(lines)) =>
               (paragraphs' = <<>> /\ current_paragraph' = <<>>)
        /\ (mode = "paragraphs" /\ pc = "loop" /\ in_frontmatter'
            /\ ~in_frontmatter) => i = 0
        /\ (PastFrontmatter /\ i > 0 /\ line_stripped = <<"-", "-", "-">>) =>
               /\ ~in_frontmatter'
               /\ current_paragraph' = <<>>
               /\ SubSeq(paragraphs', 1, Len(paragraphs)) = paragraphs
      ]_vars

C6_Witness ==
    /\ mode = "paragraphs" /\ pc = "done"
    /\ lines = <<RuleLine, ProseOver, ProseOver>>
    /\ paragraphs = <<>>

----------------------------------------------------------------------------
(* clean_markdown, statement by statement *)

MaxInner == 1

PlainChars == {"a", " "}
Words(n) == UNION {[1..k -> PlainChars] : k \in 0..n}
Outer == {<<>>, <<"a", " ">>}
Kinds == {"bold", "italic", "bold_alt", "italic_alt", "code", "wiki",
          "link", "link_empty_url"}

Plain(w) == [kind |-> "plain", x |-> w]

\* the markdown source of one segment
Render(seg) ==
    CASE seg.kind = "plain"      -> seg.x
      [] seg.kind = "bold"       -> <<"*", "*">> \o seg.x \o <<"*", "*">>
      [] seg.kind = "italic"     -> <<"*">> \o seg.x \o <<"*">>
      [] seg.kind = "bold_alt"   -> <<"_", "_">> \o seg.x \o <<"_", "_">>
      [] seg.kind = "italic_alt" -> <<"_">> \o seg.x \o <<"_">>
      [] seg.kind = "code"       -> <<Backtick>> \o seg.x \o <<Backtick>>
      [] seg.kind = "wiki"       -> <<"[", "[">> \o seg.x \o <<"]", "]">>
      [] seg.kind = "link"       -> <<"[">> \o seg.x \o <<"]", "(", "u", ")">>
      [] seg.kind = "link_empty_url" -> <<"[">> \o seg.x \o <<"]", "(", ")">>

RECURSIVE RenderAll(_)
RenderAll(segs) ==
    IF segs = <<>> THEN <<>> ELSE Render(Head(segs)) \o RenderAll(Tail(segs))

\* the text content of the segments
RECURSIVE TextOf(_)
TextOf(segs) ==
    IF segs = <<>> THEN <<>> ELSE Head(segs).x \o TextOf(Tail(segs))

Constructs == {[kind |-> k, x |-> w] : k \in Kinds, w \in Words(MaxInner)}

\* **bold** and _italic_ and [[Link]]
ExampleSegments ==
    << [kind |-> "bold", x |-> <<"b", "o", "l", "d">>],
       Plain(<<" ", "a", "n", "d", " ">>),
       [kind |-> "italic_alt", x |-> <<"i", "t", "a", "l", "i", "c">>],
       Plain(<<" ", "a", "n", "d", " ">>),
       [kind |-> "wiki", x |-> <<"L", "i", "n", "k">>] >>

CleanInputs ==
    {<<Plain(pre), c, Plain(post)>> :
        pre \in Outer, c \in Constructs, post \in Outer}
    \cup {<<Plain(pre), c, Plain(mid), d, Plain(post)>> :
        pre \in Outer, c \in Constructs, mid \in Outer, d \in Constructs,
        post \in Outer}
    \cup {ExampleSegments}

CleanInit ==
    /\ mode = "clean" /\ pc = "bold"
    /\ segments \in CleanInputs
    /\ content = RenderAll(segments)
    /\ text = content
    /\ lines = None /\ i = 0 /\ in_frontmatter = FALSE
    /\ current_paragraph = <<>> /\ paragraphs = <<>>
    /\ title = None
    /\ markdown_files = {} /\ attempts = 0 /\ reads = 0 /\ errors = 0
    /\ result = NoResult

NotCleanVars ==
    <<mode, content, lines, i, in_frontmatter, current_paragraph, paragraphs,
      title, segments, markdown_files, attempts, reads, errors, result>>

\* line 117
CleanBold ==
    /\ mode = "clean" /\ pc = "bold"
    /\ text' = clean_bold(text)
    /\ pc' = "italic"
    /\ UNCHANGED NotCleanVars

\* line 118
CleanItalic ==
    /\ mode = "clean" /\ pc = "italic"
    /\ text' = clean_italic(text)
    /\ pc' = "bold_alt"
    /\ UNCHANGED NotCleanVars

\* line 119
CleanBoldAlt ==
    /\ mode = "clean" /\ pc = "bold_alt"
    /\ text' = clean_bold_alt(text)
    /\ pc' = "italic_alt"
    /\ UNCHANGED NotCleanVars

\* line 120
CleanItalicAlt ==
    /\ mode = "clean" /\ pc = "italic_alt"
    /\ text' = clean_italic_alt(text)
    /\ pc' = "code"
    /\ UNCHANGED NotCleanVars

\* line 123
CleanCode ==
    /\ mode = "clean" /\ pc = "code"
    /\ text' = clean_code(text)
    /\ pc' = "wiki"
    /\ UNCHANGED NotCleanVars

\* line 126
CleanWiki ==
    /\ mode = "clean" /\ pc = "wiki"
    /\ text' = clean_wiki(text)
    /\ pc' = "link"
    /\ UNCHANGED NotCleanVars

\* lines 129-131
CleanLink ==
    /\ mode = "clean" /\ pc = "link"
    /\ text' = clean_link(text)
    /\ pc' = "done"
    /\ UNCHANGED NotCleanVars

CleanNext ==
    \/ CleanBold
    \/ CleanItalic
    \/ CleanBoldAlt
    \/ CleanItalicAlt
    \/ CleanCode
    \/ CleanWiki
    \/ CleanLink

SpecClean == CleanInit /\ [][CleanNext]_vars

\* C10: clean_markdown removes the markers of **x**, *x*, __x__, _x_, `x`,
\* [[x]] and [x](url) and keeps x and the text around them; the text
\* "**bold** and _italic_ and [[Link]]" becomes "bold and italic and Link".
C10_CleanKeepsText ==
    (mode = "clean" /\ pc = "done") =>
        /\ text = TextOf(segments)
        /\ content = <<"*","*","b","o","l","d","*","*"," ","a","n","d"," ",
                       "_","i","t","a","l","i","c","_"," ","a","n","d"," ",
                       "[","[","L","i","n","k","]","]">>
           => text = <<"b","o","l","d"," ","a","n","d"," ",
                       "i","t","a","l","i","c"," ","a","n","d"," ",
                       "L","i","n","k">>

C10_Witness ==
    /\ mode = "clean" /\ pc = "done"
    /\ segments = ExampleSegments
    /\ text = <<"b","o","l","d"," ","a","n","d"," ",
                "i","t","a","l","i","c"," ","a","n","d"," ",
                "L","i","n","k">>

----------------------------------------------------------------------------
(* get_obsidian_uri *)

BooksDirectory == <<"/", "B">>

\* urllib.parse.quote: the characters left as they are
QuoteSafe == Lower \cup Upper \cup Digit \cup {"_", ".", "-", "~", "/"}

\* the two hex digits of the ASCII code of the other characters used here
PercentCode(c) ==
    CASE c = " " -> <<"%", "2", "0">>
      [] c = "!" -> <<"%", "2", "1">>
      [] c = "#" -> <<"%", "2", "3">>
      [] c = "%" -> <<"%", "2", "5">>
      [] c = "(" -> <<"%", "2", "8">>
      [] c = ")" -> <<"%", "2", "9">>
      [] c = "[" -> <<"%", "5", "B">>
      [] c = "]" -> <<"%", "5", "D">>

RECURSIVE urlquote(_)
urlquote(path) ==
    IF path = <<>> THEN <<>>
    ELSE (IF Head(path) \in QuoteSafe THEN <<Head(path)>>
          ELSE PercentCode(Head(path)))
         \o urlquote(Tail(path))

UriPrefix ==
    <<"o","b","s","i","d","i","a","n",":","/","/","o","p","e","n","?",
      "p","a","t","h","=">>

get_obsidian_uri(name) ==
    UriPrefix \o urlquote(BooksDirectory \o <<"/">> \o name)

----------------------------------------------------------------------------
(* get_random_quote *)

MaxAttempts == 10
NumFiles == 3

NoFilesMessage == "No markdown files found in the Books directory!"
NoContentMessage == "No suitable content found in your book notes."

\* a note with a title and one paragraph that qualifies
GoodNote ==
    join(<<HeadLine, BlankLine,
           ProseOver \o <<" ", "_", "b", "_">>, BlankLine, ProseShort>>,
         <<"\n">>)
\* a note whose only paragraphs are under the minimum length
ShortNote == join(<<HeadLine, ProseShort, BlankLine, ProseExact>>, <<"\n">>)
\* a note whose frontmatter never closes
OpenNote == join(<<RuleLine, ProseOver>>, <<"\n">>)

File(k) ==
    [name    |-> <<"n">> \o Rep("o", k) \o <<" ", "1", ".", "m", "d">>,
     content |-> CASE k % 3 = 1 -> GoodNote
                   [] k % 3 = 2 -> ShortNote
                   [] OTHER     -> OpenNote]

QuoteInit ==
    /\ mode = "quote" /\ pc = "start"
    /\ markdown_files \in SUBSET {File(k) : k \in 1..NumFiles}
    /\ attempts = 0 /\ reads = 0 /\ errors = 0
    /\ result = NoResult
    /\ content = None /\ lines = None /\ i = 0 /\ in_frontmatter = FALSE
    /\ current_paragraph = <<>> /\ paragraphs = <<>>
    /\ title = None /\ text = None /\ segments = <<>>

NotQuoteVars ==
    <<mode, content, lines, i, in_frontmatter, current_paragraph, paragraphs,
      title, text, segments, markdown_files>>

\* mutant: the empty list is not tested for, and random.choice([]) raises
QuoteNoFiles_raises ==
    /\ mode = "quote" /\ pc = "start"
    /\ markdown_files = {}
    /\ result' = [kind |-> "raised", value |-> "IndexError"]
    /\ pc' = "done"
    /\ UNCHANGED <<attempts, reads, errors, NotQuoteVars>>

\* lines 161-164
QuoteNoFiles ==
    /\ mode = "quote" /\ pc = "start"
    /\ markdown_files = {}
    /\ result' = [kind |-> "str", value |-> NoFilesMessage]
    /\ pc' = "done"
    /\ UNCHANGED <<attempts, reads, errors, NotQuoteVars>>

\* lines 161-167
QuoteEnterLoop ==
    /\ mode = "quote" /\ pc = "start"
    /\ markdown_files # {}
    /\ attempts' = 0
    /\ pc' = "loop"
    /\ UNCHANGED <<reads, errors, result, NotQuoteVars>>

\* mutant: the loop allows one attempt more
may_attempt_once_more(n) == n <= MaxAttempts

\* line 168
may_attempt(n) == n < MaxAttempts

\* lines 168-188: the file is read and has a qualifying paragraph
QuoteSuccess ==
    /\ mode = "quote" /\ pc = "loop" /\ may_attempt(attempts)
    /\ \E random_file \in markdown_files :
       \E book_title \in {extract_book_title(random_file.content)},
          found \in {extract_paragraphs(random_file.content)} :
          /\ found # <<>>
          /\ \E random_paragraph \in {found[n] : n \in 1..Len(found)} :
             \E clean_paragraph \in {clean_markdown(random_paragraph)},
                obsidian_uri \in {get_obsidian_uri(random_file.name)} :
                result' = [kind          |-> "dict",
                           quote         |-> clean_paragraph,
                           book          |-> book_title,
                           file          |-> random_file.name,
                           obsidian_link |-> obsidian_uri]
    /\ reads' = reads + 1
    /\ pc' = "done"
    /\ UNCHANGED <<attempts, errors, NotQuoteVars>>

\* lines 168-178, 193: the file is read and has no qualifying paragraph
QuoteNoContent ==
    /\ mode = "quote" /\ pc = "loop" /\ may_attempt(attempts)
    /\ \E random_file \in markdown_files :
          extract_paragraphs(random_file.content) = <<>>
    /\ reads' = reads + 1
    /\ attempts' = attempts + 1
    /\ UNCHANGED <<pc, errors, result, NotQuoteVars>>

\* mutant: the exception is not caught
QuoteReadError_propagates ==
    /\ mode = "quote" /\ pc = "loop" /\ may_attempt(attempts)
    /\ \E random_file \in markdown_files : TRUE
    /\ reads' = reads + 1
    /\ errors' = errors + 1
    /\ result' = [kind |-> "raised", value |-> "Exception"]
    /\ pc' = "done"
    /\ UNCHANGED <<attempts, NotQuoteVars>>

\* lines 168-173, 190-193: open() or read() raises, whichever file was picked
QuoteReadError ==
    /\ mode = "quote" /\ pc = "loop" /\ may_attempt(attempts)
    /\ \E random_file \in markdown_files : TRUE
    /\ reads' = reads + 1
    /\ errors' = errors + 1
    /\ attempts' = attempts + 1
    /\ UNCHANGED <<pc, result, NotQuoteVars>>

\* line 195
QuoteExhausted ==
    /\ mode = "quote" /\ pc = "loop" /\ ~may_attempt(attempts)
    /\ result' = [kind |-> "str", value |-> NoContentMessage]
    /\ pc' = "done"
    /\ UNCHANGED <<attempts, reads, errors, NotQuoteVars>>

QuoteNext ==
    \/ QuoteNoFiles
    \/ QuoteEnterLoop
    \/ QuoteReadError
    \/ QuoteNoContent
    \/ QuoteSuccess
    \/ QuoteExhausted

\* the method runs to its return: no step of it waits on anything
SpecQuote == QuoteInit /\ [][QuoteNext]_vars /\ WF_vars(QuoteNext)

----------------------------------------------------------------------------
(* Properties of get_random_quote *)

NoContentOutcome ==
    /\ result.kind = "str"
    /\ result.value = "No suitable content found in your book notes."

NoFilesOutcome ==
    /\ result.kind = "str"
    /\ result.value = "No markdown files found in the Books directory!"

\* C7: get_random_quote returns after at most 10 attempts, each with one
\* file read; when no pick yields a qualifying paragraph it makes exactly 10
\* attempts and returns the "no suitable content" outcome, which is neither
\* the "no files found" outcome nor a success.
C7_TenAttempts ==
    /\ [](mode = "quote" =>
            /\ attempts <= 10 /\ reads <= 10
            /\ reads \in {attempts, attempts + 1}
            /\ (pc = "done" /\ markdown_files # {} /\ result.kind # "dict") =>
                   (NoContentOutcome /\ attempts = 10 /\ reads = 10)
            /\ (pc = "done" /\ markdown_files # {}
                /\ \A f \in markdown_files : extract_paragraphs(f.content) = <<>>) =>
                   NoContentOutcome
            /\ (pc = "done" /\ NoContentOutcome) =>
                   (attempts = 10 /\ ~NoFilesOutcome /\ markdown_files # {}))
    /\ <>(pc = "done")

C7_Witness ==
    /\ mode = "quote" /\ pc = "done"
    /\ markdown_files = {File(2)}
    /\ attempts = 10 /\ reads = 10 /\ errors = 0
    /\ NoContentOutcome

\* C8: a failed read is caught: it uses up exactly one attempt, the loop goes
\* on and nothing is raised; when all 10 attempts fail the call returns the
\* "no suitable content" outcome.
C8_ReadErrorCaught ==
    [][ /\ (mode = "quote" /\ errors' # errors) =>
               /\ errors' = errors + 1
               /\ attempts' = attempts + 1
               /\ reads' = reads + 1
               /\ pc' = "loop"
               /\ result' = result
        /\ (mode = "quote") => result'.kind # "raised"
        /\ (mode = "quote" /\ pc' = "done" /\ errors' = 10) =>
               (result'.kind = "str"
                /\ result'.value = "No suitable content found in your book notes.")
      ]_vars

C8_Witness ==
    /\ mode = "quote" /\ pc = "done"
    /\ errors > 0
    /\ result.kind = "dict"

\* C9: with no markdown files the call returns the "no files found" outcome
\* at once: no attempt, no file read, nothing raised.
C9_NoFiles ==
    (mode = "quote" /\ markdown_files = {}) =>
        /\ attempts = 0 /\ reads = 0 /\ errors = 0
        /\ pc \in {"start", "done"}
        /\ pc = "done" => NoFilesOutcome

C9_Witness ==
    /\ mode = "quote" /\ pc = "done"
    /\ markdown_files = {}
    /\ NoFilesOutcome

====
